---- MODULE Spec2Model ----
(***************************************************************************)
(* Task routing and coordination core of the multi-agent platform:         *)
(* AgentService (app/services/agent_service.py), BaseAgent                 *)
(* (app/agents/base.py) and BossAgent (app/agents/boss_agent.py).          *)
(*                                                                         *)
(* The program runs on one asyncio event loop.  A coroutine runs without   *)
(* interruption until it awaits something that really suspends; in this    *)
(* core the only such place is the body of a leaf worker's process_task    *)
(* (base.py:39).  Every action below is therefore one maximal run of a     *)
(* call between two suspensions of that kind.                              *)
(***************************************************************************)
EXTENDS Integers, Sequences, FiniteSets, TLC

\* ---------------------------------------------------------------- bounds
MaxCalls == 2       \* service calls issued in one behaviour
MaxSteps == 2       \* longest workflow handed to coordinate
MaxResults == 1     \* longest list handed to aggregate

\* ------------------------------------------------------- agents and tasks
None == "<None>"

Boss == "boss"

\* agents_to_create: the workers built by AgentService._initialize_agents.
\* Two workers with overlapping capability lists stand for the five
\* BaseAgent subclasses, so that the order of registration is observable.
Pool == {"W1", "W2"}

AllAgents == {Boss} \cup Pool

capabilities ==
  [a \in AllAgents |->
     CASE a = Boss -> {"task_delegation", "agent_coordination",
                       "workflow_management", "result_aggregation"}
       [] a = "W1" -> {"email"}
       [] a = "W2" -> {"email", "sms"}]

\* capability names asked for; no agent holds "push"
Caps == {"email", "sms", "push"}

\* capabilities named by workflow steps: one that is held, one that is not
StepCaps == {"email", "push"}

RECURSIVE SeqsUpTo(_, _)
SeqsUpTo(S, n) ==
  IF n = 0 THEN {<<>>}
  ELSE LET shorter == SeqsUpTo(S, n - 1)
       IN  shorter \cup {Append(s, x) : s \in {t \in shorter : Len(t) = n - 1}, x \in S}

Steps == {[capability |-> c] : c \in StepCaps}

Workflows == SeqsUpTo(Steps, MaxSteps)

ResultEntries == {[success |-> TRUE], [success |-> FALSE], [error |-> "failed"]}

ResultLists == SeqsUpTo(ResultEntries, MaxResults)

MkTask(c, t, wf, rs) == [capability |-> c, type |-> t, workflow |-> wf, results |-> rs]

\* Tasks handed to AgentService.execute_task: the capability decides.
ExecuteTasks ==
  {MkTask(c, "work", <<>>, <<>>) : c \in {None, "", "task_delegation"} \cup Caps}

\* Tasks handed to AgentService.delegate_to_boss: the type decides.
DelegateTasks ==
  {MkTask(c, "delegate", <<>>, <<>>) : c \in {None} \cup Caps}
    \cup {MkTask(None, "coordinate", wf, <<>>) : wf \in Workflows}
    \cup {MkTask(None, "aggregate", <<>>, rs) : rs \in ResultLists}
    \cup {MkTask(None, "work", <<>>, <<>>)}

NoTask == MkTask(None, None, <<>>, <<>>)

NoResult == [pending |-> TRUE]

CallIds == 1..MaxCalls

VARIABLES
  phase,               \* "init" while AgentService.__init__ runs, then "ready"
  agents,              \* AgentService.agents: ids in insertion order
  subordinate_agents,  \* BossAgent.subordinate_agents: ids in insertion order
  status,              \* BaseAgent.status per agent
  tasks_completed,     \* BaseAgent.tasks_completed per agent
  tasks_failed,        \* BaseAgent.tasks_failed per agent
  calls                \* one record per service call (coroutine)

agentVars == <<phase, agents, subordinate_agents, status, tasks_completed, tasks_failed, calls>>

\* CommunicationService (app/services/communication_service.py)
VARIABLES
  is_running,          \* CommunicationService.is_running
  loops,               \* the _process_messages tasks made by start()
  message_queue,       \* CommunicationService.message_queue: message ids, oldest first
  message_history,     \* CommunicationService.message_history: the message dicts
  subscribers,         \* CommunicationService.subscribers: entries in insertion order
  broadcasts,          \* one record per broadcast_message call (coroutine)
  last_op,             \* the last subscribe / unsubscribe call and its return value
  delivery_log         \* the callback invocations made by _deliver_message, in order

commVars == <<is_running, loops, message_queue, message_history, subscribers,
              broadcasts, last_op, delivery_log>>

VARIABLES
  register_log,        \* the BossAgent.register_agent calls made from outside, in order
  agg_results,         \* the list handed to BossAgent._aggregate_results
  agg_out              \* what _aggregate_results returned for it

auxVars == <<register_log, agg_results, agg_out>>

\* AgentMonitor (monitoring/agent_monitor.py) and MetaAgent (app/agents/meta_agent.py)
VARIABLES
  monitor,             \* the AgentMonitor.monitor_agents coroutine: where it is suspended
  cycle_log,           \* what the current monitoring cycle has done, per worker
  redis_lists,         \* the Redis lists agent_metrics:<name>, newest entry first
  alerts,              \* AgentMonitor.alerts
  recommendations,     \* the recommendations made by MetaAgent.monitor_system_health
  max_response_time,   \* optimization_rules["performance_thresholds"]["max_response_time"]
  system_metrics,      \* the dict handed to MetaAgent._auto_scale_system
  scaling_actions,     \* what _auto_scale_system returned for it
  meta_calls           \* the calls of MetaAgent methods made from outside, counted

metaVars == <<recommendations, max_response_time, system_metrics, scaling_actions,
              meta_calls>>

monVars == <<monitor, cycle_log, redis_lists, alerts, metaVars>>

vars == <<agentVars, commVars, auxVars, monVars>>

\* ------------------------------------------- communication service: data
MaxSends == 2        \* send_message calls in one behaviour
MaxLoops == 2        \* _process_messages tasks created in one behaviour
MaxRegisters == 4    \* register_agent calls made from outside the service
MaxAggLen == 3       \* longest list aggregated on its own
MaxVisits == 3       \* callbacks awaited by one broadcast_message call

SubscriberIds == {"A", "B"}

\* recipient values handed to send_message
Recipients == SubscriberIds \cup {"broadcast"}

Callbacks == {"cb1", "cb2"}

LoopIds == 1..MaxLoops

\* the broadcast_message calls of one behaviour
BroadcastIds == {1}

\* a consumer task: not created, or where it is suspended
NoLoop == [pc |-> "none", msg |-> 0]

\* a broadcast_message coroutine: its message id, the dict iterator (size is
\* the length the dict had when the iteration began, todo the entries the
\* iterator has still to yield), the subscribers it found at its start, the
\* callbacks it has awaited and the value it returned
NewBroadcast ==
  [pc |-> "new", id |-> 0, size |-> 0, todo |-> <<>>, cur |-> None,
   started_with |-> <<>>, visited |-> <<>>, interfered |-> FALSE,
   returned |-> None]

NoOp == [op |-> None, id |-> None, callback |-> None, returned |-> None]

\* communication_service.py:10-15
CommInit ==
  /\ is_running = FALSE
  /\ loops = [l \in LoopIds |-> NoLoop]
  /\ message_queue = <<>>
  /\ message_history = <<>>
  /\ subscribers = <<>>
  /\ broadcasts = [b \in BroadcastIds |-> NewBroadcast]
  /\ last_op = NoOp
  /\ delivery_log = <<>>

AuxInit ==
  /\ register_log = <<>>
  /\ agg_results = <<>>
  /\ agg_out = NoResult

\* ------------------------------------------------ monitoring: data
MaxCycles == 2       \* monitoring cycles in one behaviour
MaxMetaCalls == 2    \* calls of MetaAgent methods in one behaviour

\* the agents dict handed to monitor_agents, in its order
MonitoredAgents == <<"W1", "W2">>

MonitoredSet == {MonitoredAgents[i] : i \in 1..Len(MonitoredAgents)}

\* agent_monitor.py:33-38.  Times are in tenths of a second, rates and
\* usages in hundredths, so that the comparisons are between integers.
thresholds ==
  [response_time |-> 50, error_rate |-> 10, memory_usage |-> 80, cpu_usage |-> 90]

NoMetrics == [agent_name |-> None]

\* meta_agent.py:24, in tenths of a second
InitialMaxResponseTime == 20

\* meta_agent.py:47: "system_metrics": {}
NoSystemMetrics == [key \in {} |-> 0]

MonInit ==
  /\ monitor = [pc |-> "sleep", idx |-> 0, metrics |-> NoMetrics, cycles |-> 0]
  /\ cycle_log = [collected |-> {}, synthetic |-> {}, stored |-> {}, store_failed |-> {},
                  evaluated |-> {}]
  /\ redis_lists = [a \in MonitoredSet |-> <<>>]
  /\ alerts = <<>>
  /\ recommendations = <<>>
  /\ max_response_time = InitialMaxResponseTime
  /\ system_metrics = NoSystemMetrics
  /\ scaling_actions = <<>>
  /\ meta_calls = 0

\* ------------------------------------------------------------ result dicts
ErrorResult(msg) == [error |-> msg]

HasError(r) == "error" \in DOMAIN r

\* base.py:46-53
SuccessResult(a, r) == [success |-> TRUE, agent_name |-> a, result |-> r]

Payload == [payload |-> "data"]

\* ------------------------------------------------------------ BaseAgent
WorkerState == [status |-> status, tasks_completed |-> tasks_completed,
                tasks_failed |-> tasks_failed]

\* base.py:38
SetWorking(ws, a) == [ws EXCEPT !.status[a] = "working"]

\* variant: the success path leaves the status as it was
OnSuccess_KeepsStatus(ws, a) ==
  [ws EXCEPT !.tasks_completed[a] = @ + 1]

\* base.py:41-42
OnSuccess(ws, a) ==
  [ws EXCEPT !.tasks_completed[a] = @ + 1, !.status[a] = "idle"]

\* variant: the failure path also counts the task as completed
OnFailure_CountsBoth(ws, a) ==
  [ws EXCEPT !.tasks_failed[a] = @ + 1, !.tasks_completed[a] = @ + 1,
             !.status[a] = "error"]

\* base.py:56-57
OnFailure(ws, a) ==
  [ws EXCEPT !.tasks_failed[a] = @ + 1, !.status[a] = "error"]

\* ------------------------------------------------------------ lookups
\* variant: only a missing capability is rejected, an empty one is looked up
Falsy_OnlyMissing(c) == c = None

\* "not capability_required", agent_service.py:50
Falsy(c) == c \in {None, ""}

RECURSIVE FirstHolder(_, _)
FirstHolder(s, cap) ==
  IF s = <<>> THEN None
  ELSE IF cap \in capabilities[Head(s)] THEN Head(s)
  ELSE FirstHolder(Tail(s), cap)

\* variant: the first registered agent is the fallback when none holds cap
find_agent_or_first(cap) ==
  IF FirstHolder(agents, cap) = None THEN agents[1] ELSE FirstHolder(agents, cap)

\* agent_service.py:81-86
_find_agent_by_capability(cap) == FirstHolder(agents, cap)

Holds(cap, a) == cap \in capabilities[a]

\* boss_agent.py:43-46
suitable_agents(cap) == SelectSeq(subordinate_agents, LAMBDA a : Holds(cap, a))

\* variant: the last candidate is taken
selected_agent_Last(cands) == cands[Len(cands)]

\* boss_agent.py:52
selected_agent(cands) == cands[1]

\* variant: every registration adds an entry
register_agent_Appends(subs, a) == Append(subs, a)

\* boss_agent.py:98-100: a dict assignment keeps the place of an existing key
register_agent(subs, a) ==
  IF \E i \in 1..Len(subs) : subs[i] = a THEN subs ELSE Append(subs, a)

\* ------------------------------------------------ runs of one coroutine
\* A run is what one call does between two suspensions: where it stops
\* (pc, cur), the worker fields it has written (ws), its log of
\* BaseAgent.execute_task invocations (trace), the coordinate loop's local
\* list (results) and the value returned to the caller (result).

\* a service method returning without having called any agent
Returned(ws, r) ==
  [pc |-> "done", cur |-> None, results |-> <<>>, ws |-> ws, trace |-> <<>>,
   result |-> r]

\* base.py:32-39: agent a enters execute_task and awaits its process_task
Suspend(ws, trace, results, a, step) ==
  [pc |-> "process", cur |-> a, results |-> results,
   ws |-> SetWorking(ws, a),
   trace |-> Append(trace, [agent |-> a, step |-> step, outcome |-> "running"]),
   result |-> NoResult]

\* base.py:41-53 for the boss: its process_task returned inner
BossFinish(ws, trace, results, inner) ==
  [pc |-> "done", cur |-> None, results |-> results,
   ws |-> OnSuccess(ws, Boss),
   trace |-> [trace EXCEPT ![1].outcome = "ok"],
   result |-> SuccessResult(Boss, inner)]

\* boss_agent.py:37-55, run up to the await of the subordinate
_delegate_task(task, ws, trace) ==
  LET cands == suitable_agents(task.capability)
  IN  IF cands = <<>>
      THEN BossFinish(ws, trace, <<>>, ErrorResult("No agent available for capability"))
      ELSE Suspend(ws, trace, <<>>, selected_agent(cands), 0)

\* boss_agent.py:76-80
CoordinateSummary(workflow, results) ==
  [workflow_completed |-> (Len(results) = Len(workflow)),
   steps_completed |-> Len(results),
   results |-> results]

\* boss_agent.py:68-69 (with 43-55 inlined): the loop at the head of an
\* iteration, results holding one entry per step already run
_coordinate_agents(workflow, results, ws, trace) ==
  IF Len(results) = Len(workflow)
  THEN BossFinish(ws, trace, results, CoordinateSummary(workflow, results))
  ELSE LET step == workflow[Len(results) + 1]
           cands == suitable_agents(step.capability)
           rs == Append(results, ErrorResult("No agent available for capability"))
       IN  IF cands = <<>>
           THEN BossFinish(ws, trace, rs, CoordinateSummary(workflow, rs))
           ELSE Suspend(ws, trace, results, selected_agent(cands), Len(results) + 1)

\* variant: no break, the loop goes on after a failed step
CoordinateResume_NoBreak(workflow, results, step_result, ws, trace) ==
  _coordinate_agents(workflow, Append(results, step_result), ws, trace)

\* variant: the step's result is not appended, the loop re-reads the same step
CoordinateResume_NoAppend(workflow, results, step_result, ws, trace) ==
  IF HasError(step_result)
  THEN BossFinish(ws, trace, Append(results, step_result),
                  CoordinateSummary(workflow, Append(results, step_result)))
  ELSE _coordinate_agents(workflow, results, ws, trace)

\* variant: an aborting workflow compensates the steps that had completed
CoordinateResume_Compensating(workflow, results, step_result, ws, trace) ==
  LET rs == Append(results, step_result)
      undone(a) == Cardinality({i \in 2..Len(trace) :
                                  trace[i].agent = a /\ trace[i].outcome = "ok"})
      rolled == [ws EXCEPT !.tasks_completed =
                   [a \in AllAgents |-> ws.tasks_completed[a] - undone(a)]]
  IN  IF HasError(step_result)
      THEN BossFinish(rolled, trace, rs, CoordinateSummary(workflow, rs))
      ELSE _coordinate_agents(workflow, rs, ws, trace)

\* boss_agent.py:70-74: a step's result arrives
CoordinateResume(workflow, results, step_result, ws, trace) ==
  LET rs == Append(results, step_result)
  IN  IF HasError(step_result)
      THEN BossFinish(ws, trace, rs, CoordinateSummary(workflow, rs))
      ELSE _coordinate_agents(workflow, rs, ws, trace)

\* variant: an entry without the flag counts as successful
GetSuccess_DefaultTrue(r) == IF "success" \in DOMAIN r THEN r.success ELSE TRUE

\* r.get("success", False)
GetSuccess(r) == IF "success" \in DOMAIN r THEN r.success ELSE FALSE

\* boss_agent.py:82-96; success_rate is kept as the pair it is the quotient of
_aggregate_results(results) ==
  LET successful_results == SelectSeq(results, GetSuccess)
      failed_results == SelectSeq(results, LAMBDA r : ~GetSuccess(r))
  IN  [total_results |-> Len(results),
       successful |-> Len(successful_results),
       failed |-> Len(failed_results),
       success_rate |-> IF Len(results) > 0
                        THEN <<Len(successful_results), Len(results)>>
                        ELSE <<0, 1>>,
       aggregated_data |-> successful_results]

\* boss_agent.py:20-31
process_task(task, ws, trace) ==
  CASE task.type = "delegate" -> _delegate_task(task, ws, trace)
    [] task.type = "coordinate" -> _coordinate_agents(task.workflow, <<>>, ws, trace)
    [] task.type = "aggregate" ->
         BossFinish(ws, trace, <<>>, _aggregate_results(task.results))
    [] OTHER -> BossFinish(ws, trace, <<>>, ErrorResult("Unknown task type"))

\* BaseAgent.execute_task entered on agent a from a service method
AgentExecute(a, task, ws) ==
  IF a = Boss
  THEN process_task(task, SetWorking(ws, Boss),
                    <<[agent |-> Boss, step |-> 0, outcome |-> "running"]>>)
  ELSE Suspend(ws, <<>>, <<>>, a, 0)

\* the awaited process_task of calls[c].cur is over: its execute_task ends
\* (returning its result dict, or raising AgentException) and the callers
\* run on to their next suspension
Resume(c, ws, raised) ==
  LET call == calls[c]
      w == call.cur
      n == Len(call.trace)
      trace == [call.trace EXCEPT ![n].outcome = IF raised THEN "raised" ELSE "ok"]
      sub == SuccessResult(w, Payload)
      \* boss_agent.py:56-61
      step_result == IF raised
                     THEN ErrorResult("Delegation failed")
                     ELSE [delegated_to |-> w, result |-> sub]
  IN  IF call.agent # Boss
      THEN \* agent_service.py:60-67
           [pc |-> "done", cur |-> None, results |-> <<>>, ws |-> ws, trace |-> trace,
            result |-> IF raised THEN ErrorResult("Task execution failed") ELSE sub]
      ELSE IF call.task.type = "delegate"
      THEN BossFinish(ws, trace, <<>>, step_result)
      ELSE CoordinateResume(call.task.workflow, call.results, step_result, ws, trace)

\* ------------------------------------------------------------ state machine
NewCall ==
  [pc |-> "new", entry |-> None, task |-> NoTask, agent |-> None, cur |-> None,
   results |-> <<>>, trace |-> <<>>, result |-> NoResult]

\* agent_service.py:12-23 and base.py:16-20: the service owns the boss only
AgentInit ==
  /\ phase = "init"
  /\ agents = <<Boss>>                 \* agent_service.py:22-23
  /\ subordinate_agents = <<>>         \* boss_agent.py:18
  /\ status = [a \in AllAgents |-> "idle"]        \* base.py:16
  /\ tasks_completed = [a \in AllAgents |-> 0]    \* base.py:19
  /\ tasks_failed = [a \in AllAgents |-> 0]       \* base.py:20
  /\ calls = [c \in CallIds |-> NewCall]

Init == AgentInit /\ CommInit /\ AuxInit /\ MonInit

\* writes the outcome of a run of call c back into the state
Commit(c, entry, task, agent, run) ==
  /\ status' = run.ws.status
  /\ tasks_completed' = run.ws.tasks_completed
  /\ tasks_failed' = run.ws.tasks_failed
  /\ calls' = [calls EXCEPT ![c] =
                 [pc |-> run.pc, entry |-> entry, task |-> task, agent |-> agent,
                  cur |-> run.cur, results |-> run.results, trace |-> run.trace,
                  result |-> run.result]]

\* agent_service.py:34-37, one iteration of the loop over agents_to_create
InitializeAgent(a) ==
  /\ phase = "init"
  /\ \A i \in 1..Len(agents) : agents[i] # a
  /\ agents' = Append(agents, a)
  /\ subordinate_agents' = register_agent(subordinate_agents, a)
  /\ UNCHANGED <<phase, status, tasks_completed, tasks_failed, calls>>
  /\ UNCHANGED <<commVars, auxVars, monVars>>

\* agent_service.py:39: the loop is over, the service is constructed
FinishInit ==
  /\ phase = "init"
  /\ \A a \in Pool : \E i \in 1..Len(agents) : agents[i] = a
  /\ phase' = "ready"
  /\ UNCHANGED <<agents, subordinate_agents, status, tasks_completed, tasks_failed, calls>>
  /\ UNCHANGED <<commVars, auxVars, monVars>>

CanIssue(c) ==
  /\ phase = "ready"
  /\ calls[c].pc = "new"
  /\ \A d \in CallIds : d < c => calls[d].pc # "new"

\* agent_service.py:45-67, up to the first suspension
ExecuteTask(c, task) ==
  /\ CanIssue(c)
  /\ LET capability_required == task.capability
         suitable_agent == _find_agent_by_capability(capability_required)
     IN  IF Falsy(capability_required)
         THEN Commit(c, "execute", task, None,
                     Returned(WorkerState, ErrorResult("No capability specified in task")))
         ELSE IF suitable_agent = None
         THEN Commit(c, "execute", task, None,
                     Returned(WorkerState, ErrorResult("No agent found for capability")))
         ELSE Commit(c, "execute", task, suitable_agent,
                     AgentExecute(suitable_agent, task, WorkerState))
  /\ UNCHANGED <<phase, agents, subordinate_agents>>
  /\ UNCHANGED <<commVars, auxVars, monVars>>

\* agent_service.py:69-79, up to the first suspension
DelegateToBoss(c, task) ==
  /\ CanIssue(c)
  /\ Commit(c, "delegate", task, Boss, AgentExecute(Boss, task, WorkerState))
  /\ UNCHANGED <<phase, agents, subordinate_agents>>
  /\ UNCHANGED <<commVars, auxVars, monVars>>

\* base.py:39-53: the awaited process_task returns
ProcessReturn(c) ==
  /\ calls[c].pc = "process"
  /\ LET w == calls[c].cur
     IN  Commit(c, calls[c].entry, calls[c].task, calls[c].agent,
                Resume(c, OnSuccess(WorkerState, w), FALSE))
  /\ UNCHANGED <<phase, agents, subordinate_agents>>
  /\ UNCHANGED <<commVars, auxVars, monVars>>

\* base.py:39, 55-64: the awaited process_task raises
ProcessRaise(c) ==
  /\ calls[c].pc = "process"
  /\ LET w == calls[c].cur
     IN  Commit(c, calls[c].entry, calls[c].task, calls[c].agent,
                Resume(c, OnFailure(WorkerState, w), TRUE))
  /\ UNCHANGED <<phase, agents, subordinate_agents>>
  /\ UNCHANGED <<commVars, auxVars, monVars>>

Next ==
  \/ \E a \in Pool : InitializeAgent(a)
  \/ FinishInit
  \/ \E c \in CallIds, task \in ExecuteTasks : ExecuteTask(c, task)
  \/ \E c \in CallIds, task \in DelegateTasks : DelegateToBoss(c, task)
  \/ \E c \in CallIds : ProcessReturn(c)
  \/ \E c \in CallIds : ProcessRaise(c)

Spec == Init /\ [][Next]_vars

\* ------------------------------------------------------------ vocabulary
Last(s) == s[Len(s)]

IsRegistered(a) == \E i \in 1..Len(agents) : agents[i] = a

IsSubordinate(a) == \E i \in 1..Len(subordinate_agents) : subordinate_agents[i] = a

\* the invocations of BaseAgent.execute_task on agent a that ended with outcome o
Invocations(a, o) ==
  {ci \in CallIds \X (1..(MaxSteps + 1)) :
     /\ ci[2] <= Len(calls[ci[1]].trace)
     /\ calls[ci[1]].trace[ci[2]].agent = a
     /\ calls[ci[1]].trace[ci[2]].outcome = o}

InFlightOn(a) == {c \in CallIds : calls[c].pc = "process" /\ calls[c].cur = a}

IsCoordinate(c) == calls[c].agent = Boss /\ calls[c].task.type = "coordinate"

IsDelegate(c) == calls[c].agent = Boss /\ calls[c].task.type = "delegate"

\* the capability the boss looked up before the invocation logged with step s
StepCapability(c, s) ==
  IF calls[c].task.type = "delegate" THEN calls[c].task.capability
  ELSE calls[c].task.workflow[s].capability

\* ------------------------------------------------------------ C1
\* C1: every invocation of execute_task on a worker adds exactly one to
\* exactly one of its counters -- tasks_completed if process_task returned,
\* tasks_failed if it raised -- whatever the interleaving of the calls; when
\* no invocation is in flight, tasks_completed + tasks_failed of a worker is
\* the number of invocations that selected it.
C1_CountersMatchInvocations ==
  \A a \in AllAgents :
    /\ tasks_completed[a] = Cardinality(Invocations(a, "ok"))
    /\ tasks_failed[a] = Cardinality(Invocations(a, "raised"))
    /\ (\A c \in CallIds : calls[c].pc # "process") =>
         tasks_completed[a] + tasks_failed[a] =
           Cardinality(Invocations(a, "ok") \cup Invocations(a, "raised")
                         \cup Invocations(a, "running"))

\* two calls overlapped on one worker: one has ended, the other is in flight
C1_Witness ==
  \E a \in Pool :
    /\ InFlightOn(a) # {}
    /\ status[a] # "working"
    /\ tasks_completed[a] + tasks_failed[a] >= 1

\* ------------------------------------------------------------ C2
\* C2: execute is handled by the first-registered agent holding the task's
\* capability, the boss delegates to the first-registered subordinate holding
\* it, and the candidate list of a capability is the subordinates holding it,
\* each once, in registration order (empty when none holds it).
C2_FirstRegisteredHolder ==
  /\ \A c \in CallIds :
       (calls[c].entry = "execute" /\ calls[c].agent # None) =>
         \E i \in 1..Len(agents) :
           /\ agents[i] = calls[c].agent
           /\ calls[c].task.capability \in capabilities[agents[i]]
           /\ \A j \in 1..(i - 1) : calls[c].task.capability \notin capabilities[agents[j]]
  /\ \A c \in CallIds : \A n \in 2..Len(calls[c].trace) :
       calls[c].agent = Boss =>
         \E i \in 1..Len(subordinate_agents) :
           /\ subordinate_agents[i] = calls[c].trace[n].agent
           /\ StepCapability(c, calls[c].trace[n].step) \in capabilities[subordinate_agents[i]]
           /\ \A j \in 1..(i - 1) :
                StepCapability(c, calls[c].trace[n].step) \notin capabilities[subordinate_agents[j]]
  /\ \A cap \in Caps :
       LET cands == suitable_agents(cap)
       IN  /\ {cands[i] : i \in 1..Len(cands)} =
                {a \in AllAgents : IsSubordinate(a) /\ cap \in capabilities[a]}
           /\ \A i, j \in 1..Len(cands) : i < j =>
                \E k, l \in 1..Len(subordinate_agents) :
                  k < l /\ subordinate_agents[k] = cands[i] /\ subordinate_agents[l] = cands[j]

\* two holders of "email" are registered, W2 first, and both lookups chose W2
C2_Witness ==
  /\ agents = <<Boss, "W2", "W1">>
  /\ \E c \in CallIds :
       calls[c].entry = "execute" /\ calls[c].task.capability = "email"
         /\ calls[c].agent = "W2"
  /\ \E c \in CallIds :
       IsDelegate(c) /\ calls[c].task.capability = "email"
         /\ Len(calls[c].trace) = 2 /\ calls[c].trace[2].agent = "W2"

\* ------------------------------------------------------------ C3
\* C3: execute of a task whose capability is empty or missing returns the
\* error value "No capability specified in task" (a returned dict, the call
\* ends normally) and changes no agent's status, tasks_completed or
\* tasks_failed.
C3_NoCapabilityRejected ==
  [][\A c \in CallIds :
       (calls[c].pc = "new" /\ calls'[c].pc # "new" /\ calls'[c].entry = "execute"
          /\ calls'[c].task.capability \in {None, ""}) =>
         /\ calls'[c].pc = "done"
         /\ calls'[c].result = [error |-> "No capability specified in task"]
         /\ calls'[c].trace = <<>>
         /\ UNCHANGED <<status, tasks_completed, tasks_failed>>]_vars

\* both shapes were rejected, each in its own call
C3_Witness ==
  /\ \E c \in CallIds :
       calls[c].pc = "done" /\ calls[c].entry = "execute" /\ calls[c].task.capability = ""
  /\ \E c \in CallIds :
       calls[c].pc = "done" /\ calls[c].entry = "execute" /\ calls[c].task.capability = None

\* ------------------------------------------------------------ C4
\* C4: execute of a task whose capability no registered agent holds returns
\* the error value "No agent found for capability" and changes no agent's
\* status or counters.
C4_NoAgentFound ==
  [][\A c \in CallIds :
       (calls[c].pc = "new" /\ calls'[c].pc # "new" /\ calls'[c].entry = "execute"
          /\ calls'[c].task.capability \notin {None, ""}
          /\ \A i \in 1..Len(agents) :
               calls'[c].task.capability \notin capabilities[agents[i]]) =>
         /\ calls'[c].pc = "done"
         /\ calls'[c].result = [error |-> "No agent found for capability"]
         /\ calls'[c].trace = <<>>
         /\ UNCHANGED <<status, tasks_completed, tasks_failed>>]_vars

\* "push" was asked for while another call held a worker in flight
C4_Witness ==
  /\ \E c \in CallIds :
       calls[c].pc = "done" /\ calls[c].entry = "execute" /\ calls[c].task.capability = "push"
  /\ \E c \in CallIds : calls[c].pc = "process"

\* ------------------------------------------------------------ C5
\* C5: when a delegation through the boss fails (no subordinate holds the
\* capability, or the chosen subordinate's process_task raised), the value
\* delegate_to_boss returns is a failed result: no success flag set, and the
\* error at its top level.
C5_DelegationFailureIsFailedResult ==
  \A c \in CallIds :
    (calls[c].pc = "done" /\ calls[c].entry = "delegate" /\ IsDelegate(c)
       /\ (Len(calls[c].trace) = 1 \/ Last(calls[c].trace).outcome = "raised")) =>
      /\ ~GetSuccess(calls[c].result)
      /\ HasError(calls[c].result)

\* ------------------------------------------------------------ C6
\* C6: coordinate reports workflow_completed = TRUE only when no step of the
\* workflow failed, wherever the failing step is.
C6_CompletedMeansNoStepFailed ==
  \A c \in CallIds :
    (calls[c].pc = "done" /\ IsCoordinate(c)) =>
      (calls[c].result.result.workflow_completed =>
         /\ Len(calls[c].results) = Len(calls[c].task.workflow)
         /\ \A i \in 1..Len(calls[c].results) : ~HasError(calls[c].results[i]))

\* ------------------------------------------------------------ C7
\* C7: when step k is the first failing step of a workflow, coordinate returns
\* a results list of length k with steps_completed = k, whose k-th entry is
\* the failure, and no subordinate is invoked for any step after k.
C7_FailFast ==
  \A c \in CallIds :
    (calls[c].pc = "done" /\ IsCoordinate(c)) =>
      LET out == calls[c].result.result
      IN  /\ out.steps_completed = Len(out.results)
          /\ out.results = calls[c].results
          /\ Len(out.results) <= Len(calls[c].task.workflow)
          /\ \A k \in 1..Len(out.results) :
               HasError(out.results[k]) =>
                 /\ Len(out.results) = k
                 /\ \A n \in 2..Len(calls[c].trace) : calls[c].trace[n].step <= k

\* a two-step workflow aborted at its first step, whose worker raised
C7_Witness ==
  \E c \in CallIds :
    /\ calls[c].pc = "done" /\ IsCoordinate(c)
    /\ Len(calls[c].task.workflow) = 2
    /\ Len(calls[c].results) = 1
    /\ HasError(calls[c].results[1])
    /\ Len(calls[c].trace) = 2 /\ calls[c].trace[2].outcome = "raised"

\* ------------------------------------------------------------ C8
\* C8: within one coordinate call the steps run in workflow order, one at a
\* time: the n-th subordinate invocation is for step n, it begins only when
\* the results of steps 1..n-1 are recorded, and no step is invoked twice.
C8_StepsInOrder ==
  \A c \in CallIds :
    IsCoordinate(c) =>
      /\ \A n \in 2..Len(calls[c].trace) :
           /\ calls[c].trace[n].step = n - 1
           /\ calls[c].trace[n].outcome = "running" =>
                (n = Len(calls[c].trace) /\ Len(calls[c].results) = n - 2
                   /\ calls[c].pc = "process")
           /\ calls[c].trace[n].outcome # "running" => Len(calls[c].results) >= n - 1
      /\ calls[c].pc = "process" => Last(calls[c].trace).outcome = "running"

\* step 2 is in flight, the result of step 1 is recorded
C8_Witness ==
  \E c \in CallIds :
    /\ IsCoordinate(c) /\ calls[c].pc = "process"
    /\ Len(calls[c].trace) = 3 /\ calls[c].trace[3].step = 2
    /\ Len(calls[c].results) = 1

\* ------------------------------------------------------------ C9
\* C9: the step in which a workflow aborts undoes nothing: no counter of any
\* agent decreases, every worker other than the one whose invocation has just
\* ended keeps its status and counters, the invocations already logged and the
\* results already recorded are kept, and no invocation is added.
AbortsIn(c) ==
  /\ calls[c].pc # "done" /\ calls'[c].pc = "done"
  /\ calls'[c].agent = Boss /\ calls'[c].task.type = "coordinate"
  /\ Len(calls'[c].results) > 0
  /\ HasError(Last(calls'[c].results))

C9_NoRollbackOnAbort ==
  [][\A c \in CallIds :
       AbortsIn(c) =>
         /\ \A a \in AllAgents :
              /\ tasks_completed'[a] >= tasks_completed[a]
              /\ tasks_failed'[a] >= tasks_failed[a]
         /\ \A a \in Pool \ {calls[c].cur} :
              /\ status'[a] = status[a]
              /\ tasks_completed'[a] = tasks_completed[a]
              /\ tasks_failed'[a] = tasks_failed[a]
         /\ Len(calls'[c].trace) = (IF calls[c].pc = "new" THEN 1 ELSE Len(calls[c].trace))
         /\ \A n \in 1..Len(calls[c].trace) :
              /\ calls'[c].trace[n].agent = calls[c].trace[n].agent
              /\ calls[c].trace[n].outcome = "ok" => calls'[c].trace[n].outcome = "ok"
         /\ \A i \in 1..Len(calls[c].results) : calls'[c].results[i] = calls[c].results[i]]_vars

\* a workflow whose step 1 completed and whose step 2 raised: the worker of
\* step 1 still has its completed task
C9_Witness ==
  \E c \in CallIds :
    /\ calls[c].pc = "done" /\ IsCoordinate(c)
    /\ Len(calls[c].trace) = 3
    /\ calls[c].trace[2].outcome = "ok" /\ calls[c].trace[3].outcome = "raised"
    /\ tasks_completed[calls[c].trace[2].agent] >= 1

\* ------------------------------------------------------------ C10
\* an invocation of execute_task on agent a begins in this step
Begins(a) ==
  \E c \in CallIds :
    /\ Len(calls'[c].trace) > Len(calls[c].trace)
    /\ \E n \in (Len(calls[c].trace) + 1)..Len(calls'[c].trace) : calls'[c].trace[n].agent = a

ProcessHangs(c) ==
  /\ calls[c].pc = "process"
  /\ calls' = [calls EXCEPT ![c].pc = "hung"]
  /\ UNCHANGED <<phase, agents, subordinate_agents, status, tasks_completed, tasks_failed>>
  /\ UNCHANGED <<commVars, auxVars, monVars>>

HangNext ==
  \/ \E a \in Pool : InitializeAgent(a)
  \/ FinishInit
  \/ \E c \in CallIds, task \in ExecuteTasks : ExecuteTask(c, task)
  \/ \E c \in CallIds, task \in DelegateTasks : DelegateToBoss(c, task)
  \/ \E c \in CallIds : ProcessReturn(c)
  \/ \E c \in CallIds : ProcessRaise(c)
  \/ \E c \in CallIds : ProcessHangs(c)

\* the event loop runs every coroutine that can run
HangSpec == Init /\ [][HangNext]_vars /\ WF_vars(HangNext)

\* C11: every execute call that has selected a worker eventually returns a
\* result, also when the worker's process_task never completes.
C11_EveryCallReturns ==
  \A c \in CallIds :
    (calls[c].pc \in {"process", "hung"}) ~> (calls[c].pc = "done")

\* ------------------------------------- communication service: operations
\* communication_service.py:37-44: the dict built by send_message.  Only the
\* fields the service itself reads or writes are kept.
Message(recipient) == [recipient |-> recipient, status |-> "pending"]

\* communication_service.py:59-66: the dict built by broadcast_message
BroadcastMessageDict == [recipient |-> "broadcast", status |-> "broadcasting"]

\* ids (places in message_history) of the messages made by send_message
Sent == {m \in 1..Len(message_history) : message_history[m].status # "broadcasting"}

IsSubscribed(subs, id) == \E i \in 1..Len(subs) : subs[i].id = id

SubscribedIds(subs) == [i \in 1..Len(subs) |-> subs[i].id]

\* variant: every subscribe call adds an entry
subscribe_Appends(subs, id, cb) == Append(subs, [id |-> id, callback |-> cb])

\* communication_service.py:87: a dict assignment replaces the value of an
\* existing key where it stands and puts a new key last
subscribe(subs, id, cb) ==
  IF IsSubscribed(subs, id)
  THEN [i \in 1..Len(subs) |->
          IF subs[i].id = id THEN [id |-> id, callback |-> cb] ELSE subs[i]]
  ELSE Append(subs, [id |-> id, callback |-> cb])

\* communication_service.py:97-102: the dict after the call, and its return value
unsubscribe(subs, id) ==
  IF IsSubscribed(subs, id)
  THEN [subscribers |-> SelectSeq(subs, LAMBDA e : e.id # id), returned |-> "True"]
  ELSE [subscribers |-> subs, returned |-> "False"]

\* What a dict iterator held by a running broadcast has still to yield after
\* the dict was changed under it: a new key is put last, a deleted key is
\* not yielded any more.
IterAfterSubscribe(b, id) ==
  IF b.pc = "callback" /\ ~IsSubscribed(subscribers, id)
  THEN [b EXCEPT !.todo = Append(@, id), !.interfered = TRUE]
  ELSE b

IterAfterUnsubscribe(b, id) ==
  IF b.pc = "callback" /\ IsSubscribed(subscribers, id)
  THEN [b EXCEPT !.todo = SelectSeq(@, LAMBDA x : x # id), !.interfered = TRUE]
  ELSE b

\* variant: the newest queued message is taken first
QueueGet_Lifo(q) == [item |-> q[Len(q)], rest |-> SubSeq(q, 1, Len(q) - 1)]

\* asyncio.Queue.get, communication_service.py:110-112
QueueGet(q) == [item |-> Head(q), rest |-> Tail(q)]

\* variant: a raising callback still counts as a delivery
DeliveredStatus_IgnoresRaise(raised) == "delivered"

\* communication_service.py:133-134 and 141-143: the status after the callback
DeliveredStatus(raised) == IF raised THEN "failed" ELSE "delivered"

\* communication_service.py:108: the loop condition, read when a pass ends
LoopHead == IF is_running THEN "wait" ELSE "ended"

\* ----------------------------------------- communication service: actions
\* communication_service.py:84-92
Subscribe(id, cb) ==
  /\ subscribers' = subscribe(subscribers, id, cb)
  /\ broadcasts' = [b \in BroadcastIds |-> IterAfterSubscribe(broadcasts[b], id)]
  /\ last_op' = [op |-> "subscribe", id |-> id, callback |-> cb, returned |-> "True"]
  /\ UNCHANGED <<is_running, loops, message_queue, message_history, delivery_log>>
  /\ UNCHANGED <<agentVars, auxVars, monVars>>

\* communication_service.py:94-104
Unsubscribe(id) ==
  /\ subscribers' = unsubscribe(subscribers, id).subscribers
  /\ broadcasts' = [b \in BroadcastIds |-> IterAfterUnsubscribe(broadcasts[b], id)]
  /\ last_op' = [op |-> "unsubscribe", id |-> id, callback |-> None,
                 returned |-> unsubscribe(subscribers, id).returned]
  /\ UNCHANGED <<is_running, loops, message_queue, message_history, delivery_log>>
  /\ UNCHANGED <<agentVars, auxVars, monVars>>

\* communication_service.py:46-49: put on the queue, append to the history
SendEffect(recipient) ==
  /\ message_queue' = Append(message_queue, Len(message_history) + 1)
  /\ message_history' = Append(message_history, Message(recipient))

\* communication_service.py:33-54
SendMessage(recipient) ==
  /\ Cardinality(Sent) < MaxSends
  /\ SendEffect(recipient)
  /\ UNCHANGED <<is_running, loops, subscribers, broadcasts, last_op, delivery_log>>
  /\ UNCHANGED <<agentVars, auxVars, monVars>>

\* communication_service.py:17-26.  A task slot is free when no task was made
\* in it or the task made in it has returned.
Start ==
  /\ IF is_running
     THEN UNCHANGED <<is_running, loops>>
     ELSE /\ \E l \in LoopIds : loops[l].pc \in {"none", "ended"}
          /\ is_running' = TRUE
          /\ LET l == CHOOSE k \in LoopIds : loops[k].pc \in {"none", "ended"}
             IN  loops' = [loops EXCEPT ![l] = [pc |-> "created", msg |-> 0]]
  /\ UNCHANGED <<message_queue, message_history, subscribers, broadcasts, last_op,
                 delivery_log>>
  /\ UNCHANGED <<agentVars, auxVars, monVars>>

\* communication_service.py:28-31
Stop ==
  /\ is_running' = FALSE
  /\ UNCHANGED <<loops, message_queue, message_history, subscribers, broadcasts,
                 last_op, delivery_log>>
  /\ UNCHANGED <<agentVars, auxVars, monVars>>

\* communication_service.py:106-108: the task made by start() runs for the
\* first time
LoopBegin(l) ==
  /\ loops[l].pc = "created"
  /\ loops' = [loops EXCEPT ![l].pc = LoopHead]
  /\ UNCHANGED <<is_running, message_queue, message_history, subscribers, broadcasts,
                 last_op, delivery_log>>
  /\ UNCHANGED <<agentVars, auxVars, monVars>>

\* communication_service.py:110-114 and 122-139: the queue hands its oldest
\* message to the waiting task, which runs _deliver_message up to the await
\* of the callback (or to its end when no callback is called)
LoopGet(l) ==
  /\ loops[l].pc = "wait"
  /\ message_queue # <<>>
  /\ LET got == QueueGet(message_queue)
         m == got.item
         recipient == message_history[m].recipient
     IN  /\ message_queue' = got.rest
         /\ IF recipient = "broadcast"
            THEN /\ loops' = [loops EXCEPT ![l] = [pc |-> LoopHead, msg |-> 0]]
                 /\ UNCHANGED <<message_history, delivery_log>>
            ELSE IF IsSubscribed(subscribers, recipient)
            THEN /\ loops' = [loops EXCEPT ![l] = [pc |-> "callback", msg |-> m]]
                 /\ delivery_log' = Append(delivery_log, [msg |-> m, outcome |-> "invoked"])
                 /\ UNCHANGED message_history
            ELSE /\ loops' = [loops EXCEPT ![l] = [pc |-> LoopHead, msg |-> 0]]
                 /\ message_history' = [message_history EXCEPT ![m].status = "failed"]
                 /\ UNCHANGED delivery_log
  /\ UNCHANGED <<is_running, subscribers, broadcasts, last_op>>
  /\ UNCHANGED <<agentVars, auxVars, monVars>>

\* communication_service.py:115-116 and 108: the wait of one second runs out
\* on an empty queue; the loop goes on when is_running holds (no change of
\* state) and ends when it does not
LoopTimeout(l) ==
  /\ loops[l].pc = "wait"
  /\ message_queue = <<>>
  /\ ~is_running
  /\ loops' = [loops EXCEPT ![l].pc = "ended"]
  /\ UNCHANGED <<is_running, message_queue, message_history, subscribers, broadcasts,
                 last_op, delivery_log>>
  /\ UNCHANGED <<agentVars, auxVars, monVars>>

\* the awaited callback of message loops[l].msg ends, by return or by raise
CallbackEnds(l, raised) ==
  /\ LET m == loops[l].msg
     IN  /\ message_history' =
               [message_history EXCEPT ![m].status = DeliveredStatus(raised)]
         /\ delivery_log' =
               [i \in 1..Len(delivery_log) |->
                  IF delivery_log[i].msg = m
                  THEN [msg |-> m, outcome |-> IF raised THEN "raised" ELSE "returned"]
                  ELSE delivery_log[i]]
  /\ loops' = [loops EXCEPT ![l] = [pc |-> LoopHead, msg |-> 0]]
  /\ UNCHANGED <<is_running, message_queue, subscribers, broadcasts, last_op>>
  /\ UNCHANGED <<agentVars, auxVars, monVars>>

\* communication_service.py:132-134
CallbackReturn(l) ==
  /\ loops[l].pc = "callback"
  /\ CallbackEnds(l, FALSE)

\* communication_service.py:141-143
CallbackRaise(l) ==
  /\ loops[l].pc = "callback"
  /\ CallbackEnds(l, TRUE)

LoopStep(l) ==
  LoopBegin(l) \/ LoopGet(l) \/ LoopTimeout(l) \/ CallbackReturn(l) \/ CallbackRaise(l)

\* Which callable a subscriber registered does not matter to the consumer
\* loop, so one callable is enough here.
CommNext ==
  \/ \E id \in SubscriberIds : Subscribe(id, "cb1")
  \/ \E id \in SubscriberIds : Unsubscribe(id)
  \/ \E recipient \in Recipients : SendMessage(recipient)
  \/ Start
  \/ Stop
  \/ \E l \in LoopIds : LoopBegin(l)
  \/ \E l \in LoopIds : LoopGet(l)
  \/ \E l \in LoopIds : LoopTimeout(l)
  \/ \E l \in LoopIds : CallbackReturn(l)
  \/ \E l \in LoopIds : CallbackRaise(l)

CommSpec == Init /\ [][CommNext]_vars

\* the event loop runs every consumer task that can run
FairCommSpec == CommSpec /\ \A l \in LoopIds : WF_vars(LoopStep(l))

\* --------------------------------------------- vocabulary of C12 - C14
InQueue(q, m) == \E i \in 1..Len(q) : q[i] = m

\* the callback of message m's recipient was called by _deliver_message
Invoked(log, m) == \E i \in 1..Len(log) : log[i].msg = m

OutcomeOf(log, m) == log[CHOOSE i \in 1..Len(log) : log[i].msg = m].outcome

RecipientOf(m) == message_history[m].recipient

Pending(m) == m \in Sent /\ message_history[m].status = "pending"

\* ------------------------------------------------------------ C12
\* C12: a message accepted by send is pending and queued; its status changes
\* only from pending, to delivered when the callback of its recipient
\* (subscribed when the message was taken from the queue) has returned, or to
\* failed when the recipient was not subscribed then or the callback raised;
\* a delivered or failed message keeps its status in every later step.
C12_StatusChangesOnce ==
  [][\A m \in 1..Len(message_history') :
       IF m > Len(message_history)
       THEN /\ message_history'[m].status = "pending"
            /\ InQueue(message_queue', m)
       ELSE LET old == message_history[m].status
                new == message_history'[m].status
            IN  /\ message_history'[m].recipient = RecipientOf(m)
                /\ old \in {"pending", "delivered", "failed"}
                /\ old # "pending" => new = old
                /\ (old = "pending" /\ new # old) =>
                     \/ /\ new = "delivered"
                        /\ Invoked(delivery_log, m)
                        /\ OutcomeOf(delivery_log, m) = "invoked"
                        /\ OutcomeOf(delivery_log', m) = "returned"
                     \/ /\ new = "failed"
                        /\ Invoked(delivery_log, m)
                        /\ OutcomeOf(delivery_log, m) = "invoked"
                        /\ OutcomeOf(delivery_log', m) = "raised"
                     \/ /\ new = "failed"
                        /\ ~Invoked(delivery_log, m)
                        /\ InQueue(message_queue, m) /\ ~InQueue(message_queue', m)
                        /\ ~IsSubscribed(subscribers, RecipientOf(m))
                /\ (Invoked(delivery_log', m) /\ ~Invoked(delivery_log, m)) =>
                     /\ InQueue(message_queue, m) /\ ~InQueue(message_queue', m)
                     /\ IsSubscribed(subscribers, RecipientOf(m))
                     /\ old = "pending" /\ new = "pending"
                /\ (Invoked(delivery_log, m) /\ OutcomeOf(delivery_log, m) = "invoked") =>
                     /\ old = "pending"
                     /\ OutcomeOf(delivery_log', m) = "returned" => new = "delivered"
                     /\ OutcomeOf(delivery_log', m) = "raised" => new = "failed"
    ]_vars

\* one message was delivered, another failed because the callback raised
C12_Witness ==
  \E m, n \in Sent :
    /\ message_history[m].status = "delivered"
    /\ message_history[n].status = "failed"
    /\ Invoked(delivery_log, n) /\ OutcomeOf(delivery_log, n) = "raised"

\* ------------------------------------------------------------ C13
\* C13: while the service keeps running, every message accepted by send,
\* whatever its recipient, leaves the pending status.
C13_EverySentMessageSettles ==
  \A m \in 1..MaxSends :
    (Pending(m) /\ is_running) ~> (~Pending(m) \/ ~is_running)

\* ------------------------------------------------------------ C14
\* C14: the callbacks of one recipient are called in the order of the send
\* calls: of two messages to the same recipient the one sent first has its
\* callback called first, and no callback is called for a message while a
\* message sent earlier to the same recipient is still queued.
C14_InvokedInSendOrder ==
  /\ \A i, j \in 1..Len(delivery_log) :
       (i < j /\ RecipientOf(delivery_log[i].msg) = RecipientOf(delivery_log[j].msg))
         => delivery_log[i].msg < delivery_log[j].msg
  /\ \A i \in 1..Len(delivery_log), k \in 1..Len(message_queue) :
       RecipientOf(delivery_log[i].msg) = RecipientOf(message_queue[k])
         => delivery_log[i].msg < message_queue[k]

\* two messages to one recipient both had the callback called
C14_Witness ==
  \E i, j \in 1..Len(delivery_log) :
    /\ i < j
    /\ RecipientOf(delivery_log[i].msg) = RecipientOf(delivery_log[j].msg)

\* ------------------------------------------------ broadcast_message
\* communication_service.py:69: the for statement asks the dict iterator for
\* its next item.  The iterator raises RuntimeError when the dict no longer
\* has the length it had when the iteration began; the outer handler (lines
\* 80-82) then returns False.  With nothing left to yield the loop is over:
\* the message is appended to the history and True is returned (lines 75-78).
BroadcastIterate(rec) ==
  IF Len(subscribers) # rec.size
  THEN [rec EXCEPT !.pc = "done", !.cur = None, !.returned = "False"]
  ELSE IF rec.todo = <<>>
  THEN [rec EXCEPT !.pc = "done", !.cur = None, !.returned = "True",
                   !.id = Len(message_history) + 1]
  ELSE [rec EXCEPT !.pc = "callback", !.cur = Head(rec.todo), !.todo = Tail(rec.todo)]

\* writes the outcome of a run of broadcast b back into the state
BroadcastCommit(b, rec) ==
  /\ broadcasts' = [broadcasts EXCEPT ![b] = rec]
  /\ message_history' =
       IF rec.pc = "done" /\ rec.returned = "True"
       THEN Append(message_history, BroadcastMessageDict)
       ELSE message_history

\* communication_service.py:56-71, up to the await of the first callback
BroadcastMessage(b) ==
  /\ broadcasts[b].pc = "new"
  /\ \A d \in BroadcastIds : d < b => broadcasts[d].pc # "new"
  /\ BroadcastCommit(b, BroadcastIterate(
       [NewBroadcast EXCEPT !.size = Len(subscribers),
                            !.todo = SubscribedIds(subscribers),
                            !.started_with = SubscribedIds(subscribers)]))
  /\ UNCHANGED <<is_running, loops, message_queue, subscribers, last_op, delivery_log>>
  /\ UNCHANGED <<agentVars, auxVars, monVars>>

\* the awaited callback of subscriber broadcasts[b].cur ends; a raise is
\* caught by the inner handler (lines 72-73) and the loop goes on
BroadcastCallbackEnds(b, outcome) ==
  /\ BroadcastCommit(b, BroadcastIterate(
       [broadcasts[b] EXCEPT
          !.visited = Append(@, [id |-> broadcasts[b].cur, outcome |-> outcome])]))
  /\ UNCHANGED <<is_running, loops, message_queue, subscribers, last_op, delivery_log>>
  /\ UNCHANGED <<agentVars, auxVars, monVars>>

\* communication_service.py:71
BroadcastCallbackReturn(b) ==
  /\ broadcasts[b].pc = "callback"
  /\ Len(broadcasts[b].visited) < MaxVisits
  /\ BroadcastCallbackEnds(b, "returned")

\* communication_service.py:72-73
BroadcastCallbackRaise(b) ==
  /\ broadcasts[b].pc = "callback"
  /\ Len(broadcasts[b].visited) < MaxVisits
  /\ BroadcastCallbackEnds(b, "raised")

BroadcastNext ==
  \/ \E id \in SubscriberIds, cb \in Callbacks : Subscribe(id, cb)
  \/ \E id \in SubscriberIds : Unsubscribe(id)
  \/ \E b \in BroadcastIds : BroadcastMessage(b)
  \/ \E b \in BroadcastIds : BroadcastCallbackReturn(b)
  \/ \E b \in BroadcastIds : BroadcastCallbackRaise(b)

BroadcastSpec == Init /\ [][BroadcastNext]_vars

\* ------------------------------------------------------------ C15
VisitedIds(b) == [i \in 1..Len(broadcasts[b].visited) |-> broadcasts[b].visited[i].id]

\* C15: a broadcast that has returned has called the callback of every
\* subscriber it found, each once, whether or not some of them raised, has
\* returned True and has recorded its message in the history.
C15_BroadcastReachesEverySubscriber ==
  \A b \in BroadcastIds :
    broadcasts[b].pc = "done" =>
      /\ VisitedIds(b) = broadcasts[b].started_with
      /\ broadcasts[b].returned = "True"
      /\ broadcasts[b].id \in 1..Len(message_history)
      /\ message_history[broadcasts[b].id] = BroadcastMessageDict

\* ------------------------------------------------------------ C17
NoDuplicateIds(subs) ==
  \A i, j \in 1..Len(subs) : subs[i].id = subs[j].id => i = j

Others(subs, id) == SelectSeq(subs, LAMBDA e : e.id # id)

\* C17: after subscribe(id, cb) the subscribers hold exactly one entry for
\* id, with callback cb, and the entries of the other ids are as before;
\* unsubscribe of a subscribed id removes its entry and returns True;
\* unsubscribe of an id that is not subscribed returns False and leaves the
\* subscribers as they were.
C17_SubscribeUnsubscribe ==
  [][(last_op' # last_op \/ subscribers' # subscribers) =>
       LET call == last_op'
       IN  /\ NoDuplicateIds(subscribers')
           /\ call.op \in {"subscribe", "unsubscribe"}
           /\ Others(subscribers', call.id) = Others(subscribers, call.id)
           /\ call.op = "subscribe" =>
                /\ call.returned = "True"
                /\ \E i \in 1..Len(subscribers') :
                     subscribers'[i] = [id |-> call.id, callback |-> call.callback]
           /\ call.op = "unsubscribe" =>
                /\ ~IsSubscribed(subscribers', call.id)
                /\ IF IsSubscribed(subscribers, call.id)
                   THEN call.returned = "True"
                   ELSE call.returned = "False" /\ subscribers' = subscribers
    ]_vars

\* A was subscribed before B and has just been subscribed again, with another
\* callback: there is still one entry for A, in its old place
C17_Witness ==
  /\ last_op = [op |-> "subscribe", id |-> "A", callback |-> "cb2", returned |-> "True"]
  /\ subscribers = <<[id |-> "A", callback |-> "cb2"], [id |-> "B", callback |-> "cb1"]>>

\* ------------------------------------------------------------ C16
\* communication_service.py:145: the default of get_message_history's limit,
\* the only number the service attaches to its history
HistoryLimit == 100

\* communication_service.py:145-147: a slice of the history; nothing is removed
get_message_history(limit) ==
  IF Len(message_history) <= limit THEN message_history
  ELSE SubSeq(message_history, Len(message_history) - limit + 1, Len(message_history))

\* communication_service.py:33-54, called until the history is one longer
\* than the limit
SendMessageUnbounded(recipient) ==
  /\ Len(message_history) <= HistoryLimit
  /\ SendEffect(recipient)
  /\ UNCHANGED <<is_running, loops, subscribers, broadcasts, last_op, delivery_log>>
  /\ UNCHANGED <<agentVars, auxVars, monVars>>

\* send and broadcast calls on a service with no subscriber and no consumer
HistoryNext ==
  \/ SendMessageUnbounded("A")
  \/ \E b \in BroadcastIds : BroadcastMessage(b)

HistorySpec == Init /\ [][HistoryNext]_vars

\* C16: the message history never holds more messages than the cap.
C16_HistoryWithinCap == Len(message_history) <= HistoryLimit

\* ------------------------------------------------ BossAgent.register_agent
\* boss_agent.py:98-101, called on the boss from outside the service with a
\* worker of the pool.  The method has no branch and no raise: it returns
\* None whether or not the worker's id is already a key.
RegisterAgent(a) ==
  /\ Len(register_log) < MaxRegisters
  /\ subordinate_agents' = register_agent(subordinate_agents, a)
  /\ register_log' = Append(register_log,
                            [agent |-> a, duplicate |-> IsSubordinate(a),
                             before |-> subordinate_agents,
                             after |-> register_agent(subordinate_agents, a),
                             outcome |-> "returned"])
  /\ UNCHANGED <<phase, agents, status, tasks_completed, tasks_failed, calls>>
  /\ UNCHANGED <<commVars, agg_results, agg_out, monVars>>

RegisterNext ==
  \/ \E a \in Pool : InitializeAgent(a)
  \/ FinishInit
  \/ \E a \in Pool : RegisterAgent(a)

RegisterSpec == Init /\ [][RegisterNext]_vars

\* ------------------------------------------------------------ C18
\* C18: a register_agent call for a worker whose id is already registered
\* ends with a duplicate-worker error and leaves the registered workers as
\* they were.
C18_DuplicateRegistrationRejected ==
  \A i \in 1..Len(register_log) :
    register_log[i].duplicate =>
      /\ register_log[i].outcome = "DuplicateWorkerError"
      /\ register_log[i].after = register_log[i].before

\* ------------------------------------------------------------ C19
NoRepeat(s) == \A i, j \in 1..Len(s) : s[i] = s[j] => i = j

\* C19: whatever register_agent calls were made, the candidates computed
\* for a capability name each worker at most once.
C19_CandidatesWithoutDuplicates ==
  \A cap \in Caps : NoRepeat(suitable_agents(cap))

\* a worker was registered again after its first registration, and both
\* workers are candidates for "email"
C19_Witness ==
  /\ \E i \in 1..Len(register_log) : register_log[i].duplicate
  /\ Len(suitable_agents("email")) = 2

\* ------------------------------------------- BossAgent._aggregate_results
\* entries of task["results"]: successful ones that can be told apart, a
\* failed one and one without the flag
AggEntries ==
  {[success |-> TRUE, id |-> 1], [success |-> TRUE, id |-> 2],
   [success |-> FALSE, id |-> 3], [id |-> 4]}

AggInit ==
  /\ AgentInit
  /\ CommInit
  /\ MonInit
  /\ register_log = <<>>
  /\ agg_results \in SeqsUpTo(AggEntries, MaxAggLen)
  /\ agg_out = NoResult

\* boss_agent.py:82-96 applied to the list
Aggregate ==
  /\ agg_out = NoResult
  /\ agg_out' = _aggregate_results(agg_results)
  /\ UNCHANGED <<agentVars, commVars, register_log, agg_results, monVars>>

AggregateSpec == AggInit /\ [][Aggregate]_vars

\* ------------------------------------------------------------ C20
FlagTrue(r) == "success" \in DOMAIN r /\ r.success = TRUE

SuccessfulPlaces == {i \in 1..Len(agg_results) : FlagTrue(agg_results[i])}

\* the place in the input of the k-th successful entry
KthSuccessful(k) ==
  CHOOSE i \in SuccessfulPlaces : Cardinality({j \in SuccessfulPlaces : j < i}) = k - 1

\* C20: the summary of a list counts its entries, counts those whose success
\* flag is true, gives the rest as failed, returns the successful entries in
\* input order, and gives the rate successful/total, 0 for the empty list.
C20_AggregateSummary ==
  agg_out # NoResult =>
    LET total == Len(agg_results)
        successful == Cardinality(SuccessfulPlaces)
    IN  /\ agg_out.total_results = total
        /\ agg_out.successful = successful
        /\ agg_out.failed = total - successful
        /\ Len(agg_out.aggregated_data) = successful
        /\ \A k \in 1..successful :
             agg_out.aggregated_data[k] = agg_results[KthSuccessful(k)]
        /\ agg_out.success_rate = IF total = 0 THEN <<0, 1>> ELSE <<successful, total>>

\* a list with an entry without the flag between two successful ones
C20_Witness ==
  /\ agg_out # NoResult
  /\ agg_results = <<[success |-> TRUE, id |-> 2], [id |-> 4], [success |-> TRUE, id |-> 1]>>
  /\ agg_out.successful = 2

\* ------------------------------------------------ AgentMonitor: operations
\* agent_monitor.py:13-22, without the timestamp
AgentMetrics(a, st, tc, ec, rt, mem, cpu) ==
  [agent_name |-> a, status |-> st, task_count |-> tc, error_count |-> ec,
   response_time |-> rt, memory_usage |-> mem, cpu_usage |-> cpu]

\* agent_monitor.py:86-97: the snapshot made when health_check raised
SyntheticMetrics(a) == AgentMetrics(a, "error", 0, 1, 0, 0, 0)

\* The snapshots health_check and psutil can give for worker a: one well
\* within every limit, one exactly at every limit, one with response time
\* (6.0 s) and memory above, one with cpu above, one with half of its tasks
\* in error.
Snapshots(a) ==
  {AgentMetrics(a, "healthy", 10, 0, 10, 50, 50),
   AgentMetrics(a, "healthy", 10, 1, 50, 80, 90),
   AgentMetrics(a, "healthy", 10, 0, 60, 85, 50),
   AgentMetrics(a, "healthy", 10, 0, 10, 50, 95),
   AgentMetrics(a, "healthy", 10, 5, 10, 50, 50)}

\* agent_monitor.py:130-136, 139-145, 148-153, without value and timestamp
Alert(type, a) == [type |-> type, agent |-> a]

\* agent_monitor.py:125-156: the alerts handed to _send_alert, in order
_check_alerts(metrics) ==
  (IF metrics.response_time > thresholds.response_time
   THEN <<Alert("high_response_time", metrics.agent_name)>> ELSE <<>>)
  \o (IF metrics.memory_usage > thresholds.memory_usage
      THEN <<Alert("high_memory_usage", metrics.agent_name)>> ELSE <<>>)
  \o (IF metrics.status # "healthy"
      THEN <<Alert("unhealthy_status", metrics.agent_name)>> ELSE <<>>)

\* Redis LPUSH: the value becomes the head of the list
lpush(list, value) == <<value>> \o list

\* Redis LTRIM key start stop: the elements at the zero-based places start
\* to stop, both included, are kept
ltrim(list, start, stop) ==
  IF start >= Len(list) THEN <<>>
  ELSE SubSeq(list, start + 1, IF stop + 1 < Len(list) THEN stop + 1 ELSE Len(list))

\* agent_monitor.py:123
KeepStop == 100

CurrentAgent == MonitoredAgents[monitor.idx]

\* agent_monitor.py:57-60: an exception leaves the for loop and the cycle
CycleAborted == [monitor EXCEPT !.pc = "sleep", !.idx = 0, !.metrics = NoMetrics]

\* agent_monitor.py:49 and 54-60: the for loop takes the next worker; after
\* the last one the cycle ends (the awaited _cleanup_old_metrics is not
\* defined, the AttributeError is caught at line 57)
NextWorker ==
  IF monitor.idx < Len(MonitoredAgents)
  THEN [monitor EXCEPT !.pc = "health_check", !.idx = monitor.idx + 1, !.metrics = NoMetrics]
  ELSE CycleAborted

\* ------------------------------------------------ AgentMonitor: actions
\* agent_monitor.py:47-50 and 64-68: a cycle begins, health_check of the
\* first worker is awaited
CycleBegin ==
  /\ monitor.pc = "sleep"
  /\ monitor.cycles < MaxCycles
  /\ monitor' = [pc |-> "health_check", idx |-> 1, metrics |-> NoMetrics,
                 cycles |-> monitor.cycles + 1]
  /\ cycle_log' = [collected |-> {}, synthetic |-> {}, stored |-> {},
                   store_failed |-> {}, evaluated |-> {}]
  /\ UNCHANGED <<redis_lists, alerts, metaVars>>
  /\ UNCHANGED <<agentVars, commVars, auxVars>>

\* _collect_agent_metrics has made the snapshot metrics; _store_metrics
\* (redis_client is set by start()) awaits lpush
Collected(metrics, synthetic) ==
  /\ monitor' = [monitor EXCEPT !.pc = "lpush", !.metrics = metrics]
  /\ cycle_log' = [cycle_log EXCEPT
                     !.collected = @ \cup {CurrentAgent},
                     !.synthetic = IF synthetic THEN @ \cup {CurrentAgent} ELSE @]
  /\ UNCHANGED <<redis_lists, alerts, metaVars>>
  /\ UNCHANGED <<agentVars, commVars, auxVars>>

\* agent_monitor.py:68-84
HealthCheckReturns(metrics) ==
  /\ monitor.pc = "health_check"
  /\ metrics.agent_name = CurrentAgent
  /\ Collected(metrics, FALSE)

\* agent_monitor.py:86-97
HealthCheckRaises ==
  /\ monitor.pc = "health_check"
  /\ Collected(SyntheticMetrics(CurrentAgent), TRUE)

\* agent_monitor.py:122: lpush returns, ltrim is awaited
LpushReturns ==
  /\ monitor.pc = "lpush"
  /\ monitor' = [monitor EXCEPT !.pc = "ltrim"]
  /\ redis_lists' = [redis_lists EXCEPT ![CurrentAgent] = lpush(@, monitor.cycles)]
  /\ cycle_log' = [cycle_log EXCEPT !.stored = @ \cup {CurrentAgent}]
  /\ UNCHANGED <<alerts, metaVars>>
  /\ UNCHANGED <<agentVars, commVars, auxVars>>

\* agent_monitor.py:122 and 57-60: lpush raises (the connection to Redis is
\* lost); nothing between line 51 and line 57 catches it
LpushRaises ==
  /\ monitor.pc = "lpush"
  /\ monitor' = CycleAborted
  /\ cycle_log' = [cycle_log EXCEPT !.store_failed = @ \cup {CurrentAgent}]
  /\ UNCHANGED <<redis_lists, alerts, metaVars>>
  /\ UNCHANGED <<agentVars, commVars, auxVars>>

\* agent_monitor.py:123 and 52: ltrim returns, _check_alerts runs to its end
\* (the awaited _send_email_alert does nothing), the loop goes on
LtrimReturns ==
  /\ monitor.pc = "ltrim"
  /\ redis_lists' = [redis_lists EXCEPT ![CurrentAgent] = ltrim(@, 0, KeepStop)]
  /\ alerts' = alerts \o _check_alerts(monitor.metrics)
  /\ cycle_log' = [cycle_log EXCEPT !.evaluated = @ \cup {CurrentAgent}]
  /\ monitor' = NextWorker
  /\ UNCHANGED <<metaVars>>
  /\ UNCHANGED <<agentVars, commVars, auxVars>>

\* agent_monitor.py:123 and 57-60: ltrim raises
LtrimRaises ==
  /\ monitor.pc = "ltrim"
  /\ monitor' = CycleAborted
  /\ UNCHANGED <<cycle_log, redis_lists, alerts, metaVars>>
  /\ UNCHANGED <<agentVars, commVars, auxVars>>

MonitorNext ==
  \/ CycleBegin
  \/ \E a \in MonitoredSet : \E metrics \in Snapshots(a) : HealthCheckReturns(metrics)
  \/ HealthCheckRaises
  \/ LpushReturns
  \/ LpushRaises
  \/ LtrimReturns
  \/ LtrimRaises

MonitorSpec == Init /\ [][MonitorNext]_vars

\* ------------------------------------------------------------ C21
\* C21: when a cycle is over, every worker whose own snapshot could be
\* stored has had a snapshot collected, stored and evaluated in it, whatever
\* happened to the other workers; a worker whose health_check raised was
\* given the synthetic snapshot.
C21_EveryWorkerMonitoredEachCycle ==
  (monitor.pc = "sleep" /\ monitor.cycles > 0) =>
    \A a \in MonitoredSet :
      a \notin cycle_log.store_failed =>
        /\ a \in cycle_log.collected
        /\ a \in cycle_log.stored
        /\ a \in cycle_log.evaluated

\* ------------------------------------------------ vocabulary of C22, C23
\* errors per hundred tasks of a snapshot; a snapshot without tasks but with
\* an error counts as all errors
ErrorRate(metrics) ==
  IF metrics.task_count = 0
  THEN (IF metrics.error_count > 0 THEN 100 ELSE 0)
  ELSE (metrics.error_count * 100) \div metrics.task_count

MetricValue(metrics, name) ==
  CASE name = "response_time" -> metrics.response_time
    [] name = "memory_usage" -> metrics.memory_usage
    [] name = "cpu_usage" -> metrics.cpu_usage
    [] name = "error_rate" -> ErrorRate(metrics)

\* the alert type that names a metric
AlertTypeOf(name) ==
  CASE name = "response_time" -> "high_response_time"
    [] name = "memory_usage" -> "high_memory_usage"
    [] name = "cpu_usage" -> "high_cpu_usage"
    [] name = "error_rate" -> "high_error_rate"

\* the alerts appended to AgentMonitor.alerts by the step
NewAlerts == SubSeq(alerts', Len(alerts) + 1, Len(alerts'))

\* the step is the evaluation of the snapshot monitor.metrics
Evaluates == monitor.pc = "ltrim" /\ cycle_log'.evaluated # cycle_log.evaluated

\* ------------------------------------------------------------ C22
\* C22: the evaluation of one snapshot raises, for every metric that has a
\* threshold, one alert when the value is above the threshold and none when
\* it is not; alerts are appended in every cycle, none is ever removed.
C22_OneAlertPerViolatedThreshold ==
  [][/\ Len(alerts') >= Len(alerts)
     /\ SubSeq(alerts', 1, Len(alerts)) = alerts
     /\ Evaluates =>
          \A name \in DOMAIN thresholds :
            Cardinality({i \in 1..Len(NewAlerts) :
                           /\ NewAlerts[i].type = AlertTypeOf(name)
                           /\ NewAlerts[i].agent = monitor.metrics.agent_name})
              = IF MetricValue(monitor.metrics, name) > thresholds[name] THEN 1 ELSE 0
    ]_vars

\* ------------------------------------------------------------ C23
\* C23: the evaluation of a snapshot whose error rate is above the
\* error_rate threshold raises an alert for that worker.
C23_ErrorRateAlert ==
  [][(Evaluates /\ ErrorRate(monitor.metrics) > thresholds.error_rate) =>
       \E i \in 1..Len(NewAlerts) : NewAlerts[i].agent = monitor.metrics.agent_name
    ]_vars

\* ------------------------------------------------------------ C24
\* agent_monitor.py:123, the comment of the ltrim call: "Keep last 100
\* entries"
KeptEntries == 100

\* the snapshot stored next for a worker, named by its timestamp: later than
\* every snapshot stored before (agent_monitor.py:72, datetime.now())
NextSnapshot(a) == IF redis_lists[a] = <<>> THEN 1 ELSE Head(redis_lists[a]) + 1

\* agent_monitor.py:117-123: one call of _store_metrics for a worker, lpush
\* then ltrim, with Redis answering both; called until two snapshots more
\* than the stop index of the ltrim were stored
StoreMetrics(a) ==
  /\ NextSnapshot(a) <= KeepStop + 2
  /\ redis_lists' = [redis_lists EXCEPT
                       ![a] = ltrim(lpush(@, NextSnapshot(a)), 0, KeepStop)]
  /\ UNCHANGED <<monitor, cycle_log, alerts, metaVars>>
  /\ UNCHANGED <<agentVars, commVars, auxVars>>

StoreNext == \E a \in MonitoredSet : StoreMetrics(a)

StoreSpec == Init /\ [][StoreNext]_vars

\* C24: the list kept for a worker never holds more than 100 snapshots, and
\* it holds the most recent ones, newest first.
C24_HistoryKeepsLastHundred ==
  \A a \in MonitoredSet :
    /\ Len(redis_lists[a]) <= KeptEntries
    /\ \A i \in 1..Len(redis_lists[a]) :
         redis_lists[a][i] = Head(redis_lists[a]) - i + 1

\* ------------------------------------------------ MetaAgent: data
\* meta_agent.py:52, the first two names of the list
MetaAgentNames == <<"boss", "marketing">>

MetaAgentSet == {MetaAgentNames[i] : i \in 1..Len(MetaAgentNames)}

\* meta_agent.py:357-358: the tightened max_response_time, in tenths of a second
TightenedMaxResponseTime == 15

\* meta_agent.py:104: the response_time reported when telemetry raised (999 s)
FailedResponseTime == 9990

\* meta_agent.py:34-35, in percent
scale_up_threshold == 75
scale_down_threshold == 25

\* what telemetry.get_agent_metrics gives for one agent: metrics with an
\* average response time (tenths of a second), or an exception
Telemetry ==
  {[avg_response_time |-> t] : t \in {10, 18, 30}} \cup {[raises |-> TRUE]}

TelemetryMaps == [MetaAgentSet -> Telemetry]

\* meta_agent.py:109-123: the two entries of _get_system_metrics that are read
SystemMetrics(cpu, memory) == [cpu_usage |-> cpu, memory_usage |-> memory]

\* percent values on both sides of, and on, the two thresholds
UsageLevels == {0, 24, 25, 26, 50, 74, 75, 76, 100}

SystemMetricsGrid == {SystemMetrics(c, m) : c, m \in UsageLevels}

SystemMetricsSamples == {SystemMetrics(10, 10), SystemMetrics(50, 50), SystemMetrics(80, 80)}

\* the reasons handed to _scale_system (meta_agent.py:190, 195, 202)
ScaleReasons == {"cpu_high", "memory_high", "resources_low"}

\* ------------------------------------------------ MetaAgent: operations
\* dict.get(key, default)
Get(d, key, default) == IF key \in DOMAIN d THEN d[key] ELSE default

\* meta_agent.py:81-107
_check_agent_health(telemetry) ==
  IF "raises" \in DOMAIN telemetry
  THEN [status |-> "error", response_time |-> FailedResponseTime]
  ELSE [status |-> "healthy", response_time |-> Get(telemetry, "avg_response_time", 0)]

\* meta_agent.py:60-67: the recommendation made for a slow agent
Recommendation(a) ==
  [type |-> "performance", agent |-> a, issue |-> "high_response_time"]

\* meta_agent.py:54-67: the agents whose response time is above the limit, in
\* the order of the list
SlowAgents(telemetry, limit) ==
  SelectSeq(MetaAgentNames,
            LAMBDA a : _check_agent_health(telemetry[a]).response_time > limit)

\* meta_agent.py:41-79: the recommendations and the overall status of the
\* health report (no recommendation carries a severity, so never "critical")
monitor_system_health(telemetry, limit) ==
  LET slow == SlowAgents(telemetry, limit)
      recs == [i \in 1..Len(slow) |-> Recommendation(slow[i])]
  IN [recommendations |-> recs,
      overall_status |-> IF recs # <<>> THEN "warning" ELSE "healthy"]

\* meta_agent.py:152-178: the corrective action a recommendation is mapped to
_apply_optimization(recommendation) ==
  CASE recommendation.type = "performance" /\ recommendation.issue = "high_response_time"
         -> "increase_workers"
    [] recommendation.type = "performance" /\ recommendation.issue = "high_error_rate"
         -> "restart_agent"
    [] recommendation.type = "resource" /\ recommendation.issue = "high_memory_usage"
         -> "clear_agent_cache"
    [] recommendation.type = "resource" /\ recommendation.issue = "high_queue_size"
         -> "add_workers"
    [] OTHER -> None

\* meta_agent.py:344-363: the max_response_time left by _update_optimization_rules
\* for the health report it obtained
_update_optimization_rules(report, limit) ==
  IF report.overall_status = "healthy" /\ limit > TightenedMaxResponseTime
  THEN TightenedMaxResponseTime
  ELSE limit

\* meta_agent.py:207-230: the dict returned by _scale_system; raised tells
\* whether the container call raised
_scale_system(direction, reason, raised) ==
  [action |-> CASE direction = "up" /\ ~raised -> "scale_up"
                [] direction = "up" /\ raised -> "scale_up_failed"
                [] direction # "up" /\ ~raised -> "scale_down"
                [] OTHER -> "scale_down_failed",
   reason |-> reason]

\* the same method with the scale-down test met by either usage alone
_auto_scale_system_DownOnEither(metrics, failing) ==
  LET cpu_usage == Get(metrics, "cpu_usage", 0)
      memory_usage == Get(metrics, "memory_usage", 0)
  IN (IF cpu_usage > scale_up_threshold
      THEN <<_scale_system("up", "cpu_high", "cpu_high" \in failing)>>
      ELSE <<>>)
     \o
     (IF memory_usage > scale_up_threshold
      THEN <<_scale_system("up", "memory_high", "memory_high" \in failing)>>
      ELSE IF cpu_usage < scale_down_threshold \/ memory_usage < scale_down_threshold
      THEN <<_scale_system("down", "resources_low", "resources_low" \in failing)>>
      ELSE <<>>)

\* meta_agent.py:180-205: the list returned by _auto_scale_system; failing is
\* the set of reasons for which the container call raises.  The elif belongs
\* to the test of memory_usage.
_auto_scale_system(metrics, failing) ==
  LET cpu_usage == Get(metrics, "cpu_usage", 0)
      memory_usage == Get(metrics, "memory_usage", 0)
  IN (IF cpu_usage > scale_up_threshold
      THEN <<_scale_system("up", "cpu_high", "cpu_high" \in failing)>>
      ELSE <<>>)
     \o
     (IF memory_usage > scale_up_threshold
      THEN <<_scale_system("up", "memory_high", "memory_high" \in failing)>>
      ELSE IF cpu_usage < scale_down_threshold /\ memory_usage < scale_down_threshold
      THEN <<_scale_system("down", "resources_low", "resources_low" \in failing)>>
      ELSE <<>>)

\* the recommendations of one health report as they are remembered: who
\* obtained the report, and how often _apply_optimization was called with each
Produced(report, producer, handed) ==
  [i \in 1..Len(report.recommendations) |->
     [recommendation |-> report.recommendations[i], producer |-> producer,
      action |-> IF handed = 0 THEN None
                 ELSE _apply_optimization(report.recommendations[i]),
      handed |-> handed]]

\* ------------------------------------------------ MetaAgent: actions
\* meta_agent.py:41-79: monitor_system_health called from outside; the
\* report goes to the caller
MonitorSystemHealth(telemetry) ==
  /\ meta_calls < MaxMetaCalls
  /\ meta_calls' = meta_calls + 1
  /\ recommendations' =
       recommendations \o Produced(monitor_system_health(telemetry, max_response_time),
                                   "monitor_system_health", 0)
  /\ UNCHANGED <<max_response_time, system_metrics, scaling_actions>>
  /\ UNCHANGED <<monitor, cycle_log, redis_lists, alerts>>
  /\ UNCHANGED <<agentVars, commVars, auxVars>>

\* meta_agent.py:125-150: the body of auto_optimize_system, run with the
\* recommendations remembered so far and the limit in force
auto_optimize_system(remembered, limit, telemetry, metrics, failing) ==
  /\ recommendations' =
       remembered \o Produced(monitor_system_health(telemetry, limit),
                              "auto_optimize_system", 1)
  /\ system_metrics' = metrics
  /\ scaling_actions' = _auto_scale_system(metrics, failing)

\* meta_agent.py:125-150: auto_optimize_system called from outside
AutoOptimizeSystem(telemetry, metrics, failing) ==
  /\ meta_calls < MaxMetaCalls
  /\ meta_calls' = meta_calls + 1
  /\ auto_optimize_system(recommendations, max_response_time, telemetry, metrics, failing)
  /\ UNCHANGED max_response_time
  /\ UNCHANGED <<monitor, cycle_log, redis_lists, alerts>>
  /\ UNCHANGED <<agentVars, commVars, auxVars>>

\* meta_agent.py:318-342: self_improve with _analyze_self_performance
\* returning: _update_optimization_rules obtains a health report of its own
\* (telemetry), keeps only its overall status, and auto_optimize_system
\* obtains the next one (later)
SelfImproveReturns(telemetry, later, metrics, failing) ==
  LET report == monitor_system_health(telemetry, max_response_time)
      limit == _update_optimization_rules(report, max_response_time)
  IN /\ meta_calls < MaxMetaCalls
     /\ meta_calls' = meta_calls + 1
     /\ max_response_time' = limit
     /\ auto_optimize_system(
          recommendations \o Produced(report, "_update_optimization_rules", 0),
          limit, later, metrics, failing)
     /\ UNCHANGED <<monitor, cycle_log, redis_lists, alerts>>
     /\ UNCHANGED <<agentVars, commVars, auxVars>>

\* meta_agent.py:327: self_improve with _analyze_self_performance raising
\* (the method is not defined in MetaAgent); the call ends there
SelfImproveRaises ==
  /\ meta_calls < MaxMetaCalls
  /\ meta_calls' = meta_calls + 1
  /\ UNCHANGED <<recommendations, max_response_time, system_metrics, scaling_actions>>
  /\ UNCHANGED <<monitor, cycle_log, redis_lists, alerts>>
  /\ UNCHANGED <<agentVars, commVars, auxVars>>

MetaNext ==
  \/ \E telemetry \in TelemetryMaps : MonitorSystemHealth(telemetry)
  \/ \E telemetry \in TelemetryMaps, metrics \in SystemMetricsSamples,
        failing \in {{}, ScaleReasons} :
       AutoOptimizeSystem(telemetry, metrics, failing)
  \/ \E telemetry, later \in TelemetryMaps, metrics \in SystemMetricsSamples,
        failing \in {{}, ScaleReasons} :
       SelfImproveReturns(telemetry, later, metrics, failing)
  \/ SelfImproveRaises

MetaSpec == Init /\ [][MetaNext]_vars

\* ------------------------------------------------------------ C25
\* C25: every recommendation a health evaluation has produced was handed to
\* _apply_optimization, the mapping to corrective actions, exactly once.
C25_EveryAlertHandedOnce ==
  \A i \in 1..Len(recommendations) : recommendations[i].handed = 1

\* ------------------------------------------------ _auto_scale_system alone
\* the MetaAgent before one evaluation of _auto_scale_system, with the
\* system metrics it will be given
ScaleInit ==
  /\ AgentInit
  /\ CommInit
  /\ AuxInit
  /\ monitor = [pc |-> "sleep", idx |-> 0, metrics |-> NoMetrics, cycles |-> 0]
  /\ cycle_log = [collected |-> {}, synthetic |-> {}, stored |-> {}, store_failed |-> {},
                  evaluated |-> {}]
  /\ redis_lists = [a \in MonitoredSet |-> <<>>]
  /\ alerts = <<>>
  /\ recommendations = <<>>
  /\ max_response_time = InitialMaxResponseTime
  /\ system_metrics \in SystemMetricsGrid
  /\ scaling_actions = <<>>
  /\ meta_calls = 0

\* meta_agent.py:180-205: the one evaluation
AutoScaleSystem(failing) ==
  /\ meta_calls = 0
  /\ meta_calls' = 1
  /\ scaling_actions' = _auto_scale_system(system_metrics, failing)
  /\ UNCHANGED <<recommendations, max_response_time, system_metrics>>
  /\ UNCHANGED <<monitor, cycle_log, redis_lists, alerts>>
  /\ UNCHANGED <<agentVars, commVars, auxVars>>

ScaleNext == \E failing \in SUBSET ScaleReasons : AutoScaleSystem(failing)

ScaleSpec == ScaleInit /\ [][ScaleNext]_vars

\* ------------------------------------------------ vocabulary of C26
\* the evaluation issued a scale-up, or a scale-down, carried out or failed
IssuedUp ==
  \E i \in 1..Len(scaling_actions) :
    scaling_actions[i].action \in {"scale_up", "scale_up_failed"}

IssuedDown ==
  \E i \in 1..Len(scaling_actions) :
    scaling_actions[i].action \in {"scale_down", "scale_down_failed"}

Between(v) == scale_down_threshold <= v /\ v <= scale_up_threshold

\* ------------------------------------------------------------ C26
\* C26: one evaluation of _auto_scale_system never issues a scale-up and a
\* scale-down together, issues nothing when CPU and memory usage are both
\* within 25..75, and issues a scale-down only when both are below 25.
C26_ScalingHysteresis ==
  meta_calls = 1 =>
    /\ ~(IssuedUp /\ IssuedDown)
    /\ (Between(system_metrics.cpu_usage) /\ Between(system_metrics.memory_usage))
         => scaling_actions = <<>>
    /\ IssuedDown =>
         /\ system_metrics.cpu_usage < scale_down_threshold
         /\ system_metrics.memory_usage < scale_down_threshold

\* an evaluation with the CPU above the scale-up threshold and the memory
\* below the scale-down threshold: a scale-up for the CPU, and no scale-down
C26_Witness ==
  /\ meta_calls = 1
  /\ system_metrics.cpu_usage > scale_up_threshold
  /\ system_metrics.memory_usage < scale_down_threshold
  /\ Len(scaling_actions) = 1
  /\ IssuedUp

\* ------------------------------------------------------------ C27
\* C27: a worker's status is working whenever an invocation of its
\* process_task is in flight, and is idle or error only when none is.
C27_WorkingWhileInFlight ==
  \A a \in Pool :
    /\ InFlightOn(a) # {} => status[a] = "working"
    /\ status[a] \in {"idle", "error"} => InFlightOn(a) = {}

\* ------------------------------------------------------------ C28
\* C28: a broadcast during whose callbacks a subscribe or unsubscribe call
\* changed the subscribers still reaches every subscriber it found when it
\* began, returns True and records its message in the history.
C28_BroadcastSurvivesInterleaving ==
  \A b \in BroadcastIds :
    (broadcasts[b].pc = "done" /\ broadcasts[b].interfered) =>
      /\ \A i \in 1..Len(broadcasts[b].started_with) :
           \E j \in 1..Len(broadcasts[b].visited) :
             broadcasts[b].visited[j].id = broadcasts[b].started_with[i]
      /\ broadcasts[b].returned = "True"
      /\ Len(message_history) > 0
      /\ message_history[Len(message_history)] = BroadcastMessageDict

\* ------------------------------------------------------------ C29
\* the consumer tasks that were created and have not returned
ActiveLoops == {l \in LoopIds : loops[l].pc \notin {"none", "ended"}}

\* C29: whatever start and stop calls were made, at most one consumer loop
\* is active.
C29_AtMostOneConsumerLoop == Cardinality(ActiveLoops) <= 1

\* ------------------------------------------------ the service after stop
\* communication_service.py:17-26: the first start call of the service
StartOnce ==
  /\ \A l \in LoopIds : loops[l].pc = "none"
  /\ Start

\* stop has returned after a start, and start was not called again
Stopped == ~is_running /\ \E l \in LoopIds : loops[l].pc # "none"

\* communication_service.py:33-54: send_message called on the stopped service
SendMessageStopped(recipient) ==
  /\ Stopped
  /\ SendMessage(recipient)

\* one start, stop calls, and sends only once the service was stopped
StopNext ==
  \/ \E id \in SubscriberIds : Subscribe(id, "cb1")
  \/ \E id \in SubscriberIds : Unsubscribe(id)
  \/ StartOnce
  \/ Stop
  \/ \E recipient \in Recipients : SendMessageStopped(recipient)
  \/ \E l \in LoopIds : LoopBegin(l)
  \/ \E l \in LoopIds : LoopGet(l)
  \/ \E l \in LoopIds : LoopTimeout(l)
  \/ \E l \in LoopIds : CallbackReturn(l)
  \/ \E l \in LoopIds : CallbackRaise(l)

StopSpec == Init /\ [][StopNext]_vars

\* the event loop runs the consumer task whenever it can run
FairStopSpec == StopSpec /\ \A l \in LoopIds : WF_vars(LoopStep(l))

\* ------------------------------------------------------------ C30
\* C30: a message sent after stop has returned, with no later start, stays
\* pending in the queue, and no subscriber callback is called for it.
C30_NothingDeliveredAfterStop ==
  \A m \in Sent :
    /\ message_history[m].status = "pending"
    /\ InQueue(message_queue, m)
    /\ ~Invoked(delivery_log, m)

====
